---- MODULE Spec2Model ----
(***************************************************************************)
(* Model of the firewall dispatcher (firewall.go): producers calling       *)
(* BanIP / LogIPError over two unbuffered channels, the single consumer    *)
(* loop, the whitelist matchers, the per-address error counters with the   *)
(* token-bucket limiter, and the backend / logger capabilities.            *)
(*                                                                         *)
(* Time is counted in whole minutes.  A token of the limiter is split in   *)
(* Duration units so that the refill of rate.Every(Duration) is one unit a *)
(* minute and the arithmetic stays in the integers.                        *)
(*                                                                         *)
(* Further specifications exercise parts on their own: MatchSpec one       *)
(* whitelist matcher (newIPMatcher, match), RuleSpec New with one rule of  *)
(* every form, and GeoSpec the self-updating geo database (ipgeo/mm.go)    *)
(* with its live and staged files.                                         *)
(***************************************************************************)
EXTENDS Integers, Sequences, FiniteSets, TLC

\* ------------------------------------------------------------------ bounds
MaxTime == 4
MaxCalls == 4
NumProducers == 2
MaxConcCalls == 3
MaxConcTime == 2

\* time.Time{} : the zero time, before every time the clock shows
ZeroTime == 0
StartTime == ZeroTime + 1

Producers == 1..NumProducers

Min(a, b) == IF a < b THEN a ELSE b
Max(a, b) == IF a > b THEN a ELSE b

RECURSIVE Pow2(_)
Pow2(n) == IF n <= 0 THEN 1 ELSE 2 * Pow2(n - 1)

\* ------------------------------------------------------- address strings
\* An address string is kept as its syntactic form and the bytes it spells:
\* "v4" a dotted quad, "v6" an IPv6 literal with no IPv4 form, "bad" a string
\* that is no address.
V4(a, b, c, d) == [form |-> "v4", bytes |-> <<a, b, c, d>>]
V6Str == [form |-> "v6", bytes |-> <<>>]
BadStr == [form |-> "bad", bytes |-> <<>>]

IPA == V4(192, 168, 1, 1)
IPB == V4(192, 168, 1, 2)

\* parseIP: net.ParseIP then To4; log.Fatalf when either gives nil
parseIP(s) ==
    IF s.form = "bad" THEN [fatal |-> TRUE, ip |-> <<>>]
    ELSE IF s.form = "v6" THEN [fatal |-> TRUE, ip |-> <<>>]
    ELSE [fatal |-> FALSE, ip |-> s.bytes]

\* strconv.Atoi on the text after the '/': digits give a number, else an error
Atoi(m) == IF m.digits THEN [err |-> FALSE, val |-> m.val] ELSE [err |-> TRUE, val |-> 0]

\* net.CIDRMask(ones, 32): nil when ones is outside 0..32
CIDRMask(ones) ==
    IF ones < 0 \/ ones > 32 THEN <<>>
    ELSE [i \in 1..4 |-> 256 - Pow2(8 - Min(8, Max(0, ones - 8 * (i - 1))))]

\* byte AND with a mask byte of the form 1..10..0
AndMask(a, m) == a - (a % (256 - m))

\* newIPMatcher: a rule is the list of its parts around '/'
newIPMatcher(rule) ==
    IF Len(rule) = 1
    THEN LET p == parseIP(rule[1].addr)
         IN  [fatal |-> p.fatal, ip |-> p.ip, hasNet |-> FALSE, netIP |-> <<>>, mask |-> <<>>]
    ELSE IF Len(rule) = 2
    THEN LET m == Atoi(rule[2])
             p == parseIP(rule[1].addr)
         IN  IF m.err \/ p.fatal
             THEN [fatal |-> TRUE, ip |-> <<>>, hasNet |-> FALSE, netIP |-> <<>>, mask |-> <<>>]
             ELSE [fatal |-> FALSE, ip |-> <<>>, hasNet |-> TRUE, netIP |-> p.ip,
                   mask |-> CIDRMask(m.val)]
    ELSE [fatal |-> TRUE, ip |-> <<>>, hasNet |-> FALSE, netIP |-> <<>>, mask |-> <<>>]

\* as Contains, but with the rule's address taken as the network number
ContainsUnmaskedNet(netIP, mask, ip) ==
    /\ Len(mask) = 4
    /\ Len(ip) = 4
    /\ \A i \in 1..4 : netIP[i] = AndMask(ip[i], mask[i])

\* net.IPNet.Contains: false when the mask is nil, else compare masked bytes
Contains(netIP, mask, ip) ==
    /\ Len(mask) = 4
    /\ Len(ip) = 4
    /\ \A i \in 1..4 : AndMask(netIP[i], mask[i]) = AndMask(ip[i], mask[i])

\* ipMatcher.match
match(s, ip) ==
    IF s.ip # <<>> THEN s.ip = ip
    ELSE IF s.hasNet THEN Contains(s.netIP, s.mask, ip)
    ELSE FALSE


\* ------------------------------------------------------------ configuration
Bare(a) == << [addr |-> a] >>
CIDR(a, n) == << [addr |-> a], [digits |-> TRUE, val |-> n] >>
BadMask(a) == << [addr |-> a], [digits |-> FALSE, val |-> 0] >>

\* whitelists given to New: none, and one with an address and a network
NoWhiteList == << >>
WhiteList2 == << Bare(V4(10, 1, 2, 3)), CIDR(V4(192, 168, 1, 2), 31) >>

\* whitelists whose rules do not parse
BadWhiteLists == { << Bare(V6Str) >>, << BadMask(V4(10, 0, 0, 0)) >> }

Policy(d, c, b) == [Duration |-> d, Count |-> c, BanInMinute |-> b]

\* what New is given: whitelist rules, backend or none, logger or none, geo
\* lookup or none, and the forgivable-error policy (Duration in minutes)
Args(rules, f, l, g, pol) ==
    [whiteList |-> rules, fw |-> f, logger |-> l, ipGeo |-> g, forgivable |-> pol]

TestArgs == Args(WhiteList2, TRUE, TRUE, FALSE, Policy(1, 2, 5))

Constructions ==
    { TestArgs,
      Args(NoWhiteList, TRUE, TRUE, TRUE, Policy(2, 2, 1)),
      Args(NoWhiteList, FALSE, TRUE, FALSE, Policy(2, 1, 1)),
      Args(WhiteList2, TRUE, TRUE, TRUE, Policy(1, 0, 1)),
      Args(NoWhiteList, TRUE, TRUE, FALSE, Policy(0, 0, 0)),
      Args(NoWhiteList, TRUE, FALSE, FALSE, Policy(1, 2, 5)) }
    \cup { Args(r, TRUE, TRUE, FALSE, Policy(1, 2, 5)) : r \in BadWhiteLists }

\* what callers pass to BanIP / LogIPError
EventIPs == { IPA, IPB, BadStr }
Timeouts == { 3 }

\* ------------------------------------------------------------------- state
VARIABLES
    whiteList,   \* Firewall.whiteList: the matchers, in rule order
    fw,          \* Firewall.fw is not nil
    ipGeoArg,    \* the ipGeo argument of New is not nil
    ipGeo,       \* Firewall.ipGeo is not nil
    forgivable,  \* Firewall.forgivable
    errorCount,  \* Firewall.errorCount: address string -> errorCounter
    banCh,       \* buffer of banCh
    countCh,     \* buffer of countCh
    cpc,         \* where the consumer goroutine is
    pend,        \* the ban or log call the consumer is about to make
    ev,          \* the event the consumer took last, and what it has done for it
    hist,        \* the count-error events handled so far, oldest first
    pcP,         \* where each producer is
    msg,         \* the value a blocked producer is sending
    nCalls,      \* calls made so far
    callers,     \* the producers that call the firewall in this run
    limits,      \* how many calls are made and how long the clock runs in this run
    now          \* the clock, in minutes

\* the whitelist argument of New, and a matcher built and asked on its own
VARIABLES
    whiteListArg, \* the rules New was given
    probe         \* one rule, one address, the matcher made of the rule, its answer

\* AutoUpdateMMIPGeo and the files it works on (clock in half hours)
VARIABLES
    gfiles,      \* the live and the staged file of the city and the asn database
    mm,          \* AutoUpdateMMIPGeo.mm: << >> is nil, <<h>> points to handle h
    readers,     \* the MMIPGeo handles made so far: open or closed, and what they read
    lastCheck,   \* AutoUpdateMMIPGeo.lastCheck
    gnow,        \* the clock of the geo component
    gpc,         \* "off", "new", "run", "failed" (no component), "crashed"
    glast,       \* what the last call of the component did
    gsteps       \* calls and file changes made so far

geoVars == <<gfiles, mm, readers, lastCheck, gnow, gpc, glast, gsteps>>

cfgVars == <<whiteList, fw, ipGeoArg, ipGeo, forgivable, callers, limits, whiteListArg, probe,
             geoVars>>
vars == <<whiteList, fw, ipGeoArg, ipGeo, forgivable, callers, limits, errorCount, banCh, countCh,
          cpc, pend, ev, hist, pcP, msg, nCalls, now, whiteListArg, probe, geoVars>>

\* no matcher under test
NoProbe == [pc |-> "off", rule |-> << >>, addr |-> << >>, s |-> << >>, out |-> << >>]

\* no call of the geo component yet
NoCall ==
    [op |-> "none", ip |-> BadStr, inspected |-> FALSE, differ |-> {}, copies |-> << >>,
     tried |-> FALSE, mm0 |-> << >>, readers0 |-> << >>, files0 |-> << >>, lastCheck0 |-> ZeroTime,
     rec |-> << >>]

\* no geo component in the process
GeoOff ==
    /\ gfiles = << >>
    /\ mm = << >>
    /\ readers = << >>
    /\ lastCheck = ZeroTime
    /\ gnow = StartTime
    /\ gpc = "off"
    /\ glast = NoCall
    /\ gsteps = 0

NoMsg == [none |-> TRUE]
NoEvent ==
    [kind |-> "none", ip |-> BadStr, reasons |-> <<>>, minutes |-> 0, t |-> ZeroTime,
     wl |-> FALSE, before |-> <<>>, logs |-> <<>>, fw |-> <<>>, done |-> TRUE, from |-> 0]

\* as BanChCap, for a channel made with room for one value
BanChCapBuffered == Len(<< NoMsg >>)

\* make(chan ban), make(chan countingError): no buffer
BanChCap == 0

\* as CountChCap, for a channel made with room for a value
CountChCapBuffered == BanChCap + 1

CountChCap == 0

\* New: fatal without a logger or with a rule that does not parse; the ipGeo
\* argument is not stored in the Firewall
NewIPGeoField(arg) == FALSE

New(a, who, lim) ==
    LET ms == [i \in 1..Len(a.whiteList) |-> newIPMatcher(a.whiteList[i])]
        bad == ~a.logger \/ \E i \in 1..Len(ms) : ms[i].fatal
    IN  /\ whiteList = IF bad THEN << >> ELSE ms
        /\ fw = a.fw
        /\ ipGeoArg = a.ipGeo
        /\ ipGeo = NewIPGeoField(a.ipGeo)
        /\ forgivable = a.forgivable
        /\ callers = who
        /\ limits = lim
        /\ whiteListArg = a.whiteList
        /\ probe = NoProbe
        /\ GeoOff
        /\ errorCount = << >>
        /\ banCh = << >>
        /\ countCh = << >>
        /\ cpc = IF bad THEN "fatal" ELSE "select"
        /\ pend = NoMsg
        /\ ev = NoEvent
        /\ hist = << >>
        /\ pcP = [p \in Producers |-> "idle"]
        /\ msg = [p \in Producers |-> NoMsg]
        /\ nCalls = 0
        /\ now = StartTime

\* one caller at a time, every construction
Init == \E a \in Constructions : New(a, {1}, [calls |-> MaxCalls, time |-> MaxTime])

\* every producer calling, the construction of the tests
ConcInit == New(TestArgs, Producers, [calls |-> MaxConcCalls, time |-> MaxConcTime])

Running == cpc \notin {"fatal", "crashed"}

\* ----------------------------------------------------------------- limiter
\* rate.NewLimiter(rate.Every(Duration), Count): tokens in units of 1/Duration
NewLimiter == [tokens |-> 0, last |-> ZeroTime]

\* as Advance, but without the cap at the burst
AdvanceNoCap(lim, t) ==
    IF lim.last = ZeroTime THEN forgivable.Count * forgivable.Duration
    ELSE lim.tokens + (t - lim.last)

\* as Advance, but with no refill after the limiter's first use
AdvanceNoRefill(lim, t) ==
    IF lim.last = ZeroTime THEN forgivable.Count * forgivable.Duration
    ELSE lim.tokens

\* Limiter.advance: refill for the time since last, capped at the burst
Advance(lim, t) ==
    IF lim.last = ZeroTime THEN forgivable.Count * forgivable.Duration
    ELSE Min(forgivable.Count * forgivable.Duration, lim.tokens + (t - lim.last))

\* as Allow, but an event that uses the last token is refused
AllowNotLastToken(lim, t) ==
    IF forgivable.Duration <= 0 THEN [ok |-> TRUE, lim |-> lim]
    ELSE LET tokens == Advance(lim, t) - forgivable.Duration
             ok == 1 <= forgivable.Count /\ tokens > 0
         IN  [ok |-> ok, lim |-> IF ok THEN [tokens |-> tokens, last |-> t] ELSE lim]

\* Limiter.Allow at time t: rate.Every(d) is Inf for d <= 0, and Inf allows all
Allow(lim, t) ==
    IF forgivable.Duration <= 0 THEN [ok |-> TRUE, lim |-> lim]
    ELSE LET tokens == Advance(lim, t) - forgivable.Duration
             ok == 1 <= forgivable.Count /\ tokens >= 0
         IN  [ok |-> ok, lim |-> IF ok THEN [tokens |-> tokens, last |-> t] ELSE lim]

\* ------------------------------------------------------------ doCountError
NewErrorCounter == [rateLimiter |-> NewLimiter, reasons |-> << >>, bannedUntil |-> ZeroTime]

\* as IsBanned, for a doCountError without the early return of a banned address
IsBannedUnchecked(ec, t) == FALSE

\* as IsBanned, but with the last minute of a ban taken as not banned
IsBannedButLastMinute(ec, t) == ec.bannedUntil > t + 1

\* ec.bannedUntil.After(time.Now())
IsBanned(ec, t) == ec.bannedUntil > t

\* as OfferEvict, but a full FIFO refuses the new reason
OfferDropNewest(q, r) ==
    IF Len(q) >= forgivable.Count THEN q ELSE Append(q, r)

\* as OfferEvict, but without the eviction
OfferKeepAll(q, r) == Append(q, r)

\* ec.reasons.Offer(reason), then Get while Size() > Count
OfferEvict(q, r) ==
    LET q1 == Append(q, r)
    IN  IF Len(q1) > forgivable.Count
        THEN SubSeq(q1, Len(q1) - forgivable.Count + 1, Len(q1))
        ELSE q1

\* as BanUntil, but with the policy's Duration as the ban period
BanUntilDuration(t) == t + forgivable.Duration

\* time.Now().Add(BanInMinute minutes)
BanUntil(t) == t + forgivable.BanInMinute

LogEntry(ip, jailUntil, reasons, action, geo) ==
    [ip |-> ip, jailUntil |-> jailUntil, reasons |-> reasons, action |-> action, geo |-> geo]

\* as CountError, but logging the reason FIFO with a counted error
CountErrorLogsFifo(ec, c, t) ==
    IF IsBanned(ec, t)
    THEN [ec |-> ec, action |-> "banned",
          log |-> LogEntry(c.ip, ZeroTime, <<c.reason>>, "banned", << >>)]
    ELSE LET q == OfferEvict(ec.reasons, c.reason)
             a == Allow(ec.rateLimiter, t)
         IN  IF a.ok
             THEN [ec |-> [rateLimiter |-> a.lim, reasons |-> q, bannedUntil |-> ec.bannedUntil],
                   action |-> "count error",
                   log |-> LogEntry(c.ip, ZeroTime, q, "count error", << >>)]
             ELSE [ec |-> [rateLimiter |-> a.lim, reasons |-> << >>, bannedUntil |-> BanUntil(t)],
                   action |-> "ban",
                   ban |-> [ip |-> c.ip, timeoutInMinute |-> forgivable.BanInMinute,
                            reasons |-> q]]

\* doCountError up to its first call out: the counter after the event, and
\* either the log call to make or the ban to carry out
CountError(ec, c, t) ==
    IF IsBanned(ec, t)
    THEN [ec |-> ec, action |-> "banned",
          log |-> LogEntry(c.ip, ZeroTime, <<c.reason>>, "banned", << >>)]
    ELSE LET q == OfferEvict(ec.reasons, c.reason)
             a == Allow(ec.rateLimiter, t)
         IN  IF a.ok
             THEN [ec |-> [rateLimiter |-> a.lim, reasons |-> q, bannedUntil |-> ec.bannedUntil],
                   action |-> "count error",
                   log |-> LogEntry(c.ip, ZeroTime, <<c.reason>>, "count error", << >>)]
             ELSE [ec |-> [rateLimiter |-> a.lim, reasons |-> << >>, bannedUntil |-> BanUntil(t)],
                   action |-> "ban",
                   ban |-> [ip |-> c.ip, timeoutInMinute |-> forgivable.BanInMinute,
                            reasons |-> q]]

\* --------------------------------------------------------------- whitelist
\* as inWhitelist, but returning after the first matcher
inWhitelistFirstRule(ip) ==
    IF Len(whiteList) = 0 THEN "no"
    ELSE IF parseIP(ip).fatal THEN "fatal"
    ELSE IF match(whiteList[1], parseIP(ip).ip) THEN "yes"
    ELSE "no"

\* inWhitelist: parseIP(ip) is evaluated once per matcher, so only when the
\* whitelist is not empty
inWhitelist(ip) ==
    IF Len(whiteList) = 0 THEN "no"
    ELSE IF parseIP(ip).fatal THEN "fatal"
    ELSE IF \E i \in 1..Len(whiteList) : match(whiteList[i], parseIP(ip).ip) THEN "yes"
    ELSE "no"

\* ----------------------------------------------------------------- doBanIP
\* the record AutoUpdateMMIPGeo.GetIPGeo answers with: it is about the address asked
GetIPGeo(ip) == [IP |-> ip]

\* as BackendCalls, for a doBanIP that goes to the logger without the backend
BackendCallsNone(b) == << >>

\* as BackendCalls, but without the test for a missing backend
BackendCallsUnguarded(b) ==
    << [ip |-> b.ip, timeoutInMinute |-> b.timeoutInMinute] >>

\* as BackendCalls, but with the policy's ban time for every ban
BackendCallsPolicyTime(b) ==
    IF fw THEN << [ip |-> b.ip, timeoutInMinute |-> forgivable.BanInMinute] >> ELSE << >>

\* s.fw.BanIP(b.ip, b.timeoutInMinute) when a backend is there
BackendCalls(b) ==
    IF fw THEN << [ip |-> b.ip, timeoutInMinute |-> b.timeoutInMinute] >> ELSE << >>

\* the geo lookup, jailUntil and the "ban" log of doBanIP, at time t
BanLogEntry(b, t) ==
    LogEntry(b.ip, t + b.timeoutInMinute, b.reasons, "ban",
             IF ipGeo THEN << GetIPGeo(b.ip) >> ELSE << >>)

\* ---------------------------------------------------------------- producers
\* the reason text of a call: each call gives its own
NextReason == nCalls + 1

\* a send on a channel: into the buffer when there is room, else the caller blocks
BanIP(p) ==
    /\ Running
    /\ p \in callers
    /\ pcP[p] = "idle"
    /\ nCalls < limits.calls
    /\ \E ip \in EventIPs, m \in Timeouts :
          LET b == [ip |-> ip, timeoutInMinute |-> m, reasons |-> <<NextReason>>]
          IN  IF Len(banCh) < BanChCap
              THEN /\ banCh' = Append(banCh, [m |-> b, from |-> p])
                   /\ UNCHANGED <<pcP, msg>>
              ELSE /\ pcP' = [pcP EXCEPT ![p] = "BanIP"]
                   /\ msg' = [msg EXCEPT ![p] = b]
                   /\ UNCHANGED banCh
    /\ nCalls' = nCalls + 1
    /\ UNCHANGED <<cfgVars, errorCount, countCh, cpc, pend, ev, hist, now>>

LogIPError(p) ==
    /\ Running
    /\ p \in callers
    /\ pcP[p] = "idle"
    /\ nCalls < limits.calls
    /\ \E ip \in EventIPs :
          LET c == [ip |-> ip, reason |-> NextReason]
          IN  IF Len(countCh) < CountChCap
              THEN /\ countCh' = Append(countCh, [m |-> c, from |-> p])
                   /\ UNCHANGED <<pcP, msg>>
              ELSE /\ pcP' = [pcP EXCEPT ![p] = "LogIPError"]
                   /\ msg' = [msg EXCEPT ![p] = c]
                   /\ UNCHANGED countCh
    /\ nCalls' = nCalls + 1
    /\ UNCHANGED <<cfgVars, errorCount, banCh, cpc, pend, ev, hist, now>>

\* ----------------------------------------------------------------- consumer
\* as CanReceive, for a loop that starts each handler with a go statement
CanReceiveAnywhere == Running

\* the consumer may take an event from a channel when it is here
CanReceive == cpc = "select"

\* as HandleBan, but marking the address banned in its counter
HandleBanMarksCounter(b, p) ==
    LET w == inWhitelist(b.ip)
        ec == IF b.ip \in DOMAIN errorCount THEN errorCount[b.ip] ELSE NewErrorCounter
    IN  /\ ev' = [kind |-> "ban", ip |-> b.ip, reasons |-> b.reasons,
                  minutes |-> b.timeoutInMinute, t |-> now, wl |-> (w = "yes"),
                  before |-> errorCount, logs |-> << >>, fw |-> << >>,
                  done |-> (w = "yes"), from |-> p]
        /\ cpc' = IF w = "fatal" THEN "crashed" ELSE IF w = "yes" THEN "select" ELSE "doBanIP"
        /\ pend' = IF w = "no" THEN b ELSE NoMsg
        /\ errorCount' = IF w = "no"
                         THEN (b.ip :> [ec EXCEPT !.bannedUntil = now + b.timeoutInMinute])
                                  @@ errorCount
                         ELSE errorCount
        /\ UNCHANGED hist

\* case b := <-s.banCh, up to the first call out of doBanIP
HandleBan(b, p) ==
    LET w == inWhitelist(b.ip)
    IN  /\ ev' = [kind |-> "ban", ip |-> b.ip, reasons |-> b.reasons,
                  minutes |-> b.timeoutInMinute, t |-> now, wl |-> (w = "yes"),
                  before |-> errorCount, logs |-> << >>, fw |-> << >>,
                  done |-> (w = "yes"), from |-> p]
        /\ cpc' = IF w = "fatal" THEN "crashed" ELSE IF w = "yes" THEN "select" ELSE "doBanIP"
        /\ pend' = IF w = "no" THEN b ELSE NoMsg
        /\ UNCHANGED <<errorCount, hist>>

\* case c := <-s.countCh, up to the first call out of doCountError
HandleCount(c, p) ==
    LET w == inWhitelist(c.ip)
        ec == IF c.ip \in DOMAIN errorCount THEN errorCount[c.ip] ELSE NewErrorCounter
        r == CountError(ec, c, now)
    IN  /\ ev' = [kind |-> "count", ip |-> c.ip, reasons |-> <<c.reason>>,
                  minutes |-> 0, t |-> now, wl |-> (w = "yes"),
                  before |-> errorCount, logs |-> << >>, fw |-> << >>,
                  done |-> (w = "yes"), from |-> p]
        /\ IF w = "no"
           THEN /\ errorCount' = (c.ip :> r.ec) @@ errorCount
                /\ hist' = Append(hist, [ip |-> c.ip, t |-> now, action |-> r.action])
                /\ cpc' = IF r.action = "ban" THEN "doBanIP" ELSE "log"
                /\ pend' = IF r.action = "ban" THEN r.ban ELSE r.log
           ELSE /\ cpc' = IF w = "fatal" THEN "crashed" ELSE "select"
                /\ pend' = NoMsg
                /\ UNCHANGED <<errorCount, hist>>

RecvBan(p) ==
    /\ CanReceive
    /\ \/ Len(banCh) > 0 /\ banCh[1].from = p
       \/ Len(banCh) = 0 /\ pcP[p] = "BanIP"
    /\ IF Len(banCh) > 0
       THEN /\ HandleBan(banCh[1].m, p)
            /\ banCh' = Tail(banCh)
            /\ UNCHANGED <<pcP, msg>>
       ELSE /\ HandleBan(msg[p], p)
            /\ pcP' = [pcP EXCEPT ![p] = "idle"]
            /\ msg' = [msg EXCEPT ![p] = NoMsg]
            /\ UNCHANGED banCh
    /\ UNCHANGED <<cfgVars, countCh, nCalls, now>>

RecvCount(p) ==
    /\ CanReceive
    /\ \/ Len(countCh) > 0 /\ countCh[1].from = p
       \/ Len(countCh) = 0 /\ pcP[p] = "LogIPError"
    /\ IF Len(countCh) > 0
       THEN /\ HandleCount(countCh[1].m, p)
            /\ countCh' = Tail(countCh)
            /\ UNCHANGED <<pcP, msg>>
       ELSE /\ HandleCount(msg[p], p)
            /\ pcP' = [pcP EXCEPT ![p] = "idle"]
            /\ msg' = [msg EXCEPT ![p] = NoMsg]
            /\ UNCHANGED countCh
    /\ UNCHANGED <<cfgVars, banCh, nCalls, now>>

\* doBanIP: the backend call
BackendCall ==
    /\ cpc = "doBanIP"
    /\ ev' = [ev EXCEPT !.fw = @ \o BackendCalls(pend)]
    /\ cpc' = "banLog"
    /\ UNCHANGED <<cfgVars, errorCount, banCh, countCh, pend, hist, pcP, msg, nCalls, now>>

\* doBanIP: geo lookup, jailUntil and the logger call
BanLog ==
    /\ cpc = "banLog"
    /\ ev' = [ev EXCEPT !.logs = Append(@, BanLogEntry(pend, now)), !.done = TRUE]
    /\ cpc' = "select"
    /\ pend' = NoMsg
    /\ UNCHANGED <<cfgVars, errorCount, banCh, countCh, hist, pcP, msg, nCalls, now>>

\* doCountError: the logger call of "banned" and "count error"
LogCall ==
    /\ cpc = "log"
    /\ ev' = [ev EXCEPT !.logs = Append(@, pend), !.done = TRUE]
    /\ cpc' = "select"
    /\ pend' = NoMsg
    /\ UNCHANGED <<cfgVars, errorCount, banCh, countCh, hist, pcP, msg, nCalls, now>>

\* a minute passes
Tick ==
    /\ Running
    /\ now < limits.time
    /\ now' = now + 1
    /\ UNCHANGED <<cfgVars, errorCount, banCh, countCh, cpc, pend, ev, hist, pcP, msg, nCalls>>

Next ==
    \/ \E p \in Producers : BanIP(p)
    \/ \E p \in Producers : LogIPError(p)
    \/ \E p \in Producers : RecvBan(p)
    \/ \E p \in Producers : RecvCount(p)
    \/ BackendCall
    \/ BanLog
    \/ LogCall
    \/ Tick

Spec == Init /\ [][Next]_vars

ConcSpec == ConcInit /\ [][Next]_vars


\* ------------------------------------------------- a matcher on its own
\* the rest of the process while one component is exercised alone
FirewallOff ==
    /\ whiteList = << >>
    /\ fw = FALSE
    /\ ipGeoArg = FALSE
    /\ ipGeo = FALSE
    /\ forgivable = Policy(0, 0, 0)
    /\ callers = {}
    /\ limits = [calls |-> 0, time |-> 0]
    /\ whiteListArg = << >>
    /\ errorCount = << >>
    /\ banCh = << >>
    /\ countCh = << >>
    /\ cpc = "off"
    /\ pend = NoMsg
    /\ ev = NoEvent
    /\ hist = << >>
    /\ pcP = [p \in Producers |-> "idle"]
    /\ msg = [p \in Producers |-> NoMsg]
    /\ nCalls = 0
    /\ now = StartTime

fwVars == <<whiteList, fw, ipGeoArg, ipGeo, forgivable, callers, limits, errorCount, banCh,
            countCh, cpc, pend, ev, hist, pcP, msg, nCalls, now, whiteListArg>>

\* rule texts: addresses with and without host bits, every prefix length of
\* IPv4 and lengths around it, and texts that are no IPv4 rule
RuleAddrs == { V4(192, 168, 1, 0), V4(192, 168, 1, 10), V4(10, 0, 0, 0), V4(129, 255, 0, 7) }
PrefixLens == -1..34
ThreeParts(a) == << [addr |-> a], [digits |-> TRUE, val |-> 8], [digits |-> TRUE, val |-> 8] >>
MatchRules ==
    { Bare(a) : a \in RuleAddrs \cup {V6Str, BadStr} }
    \cup { CIDR(a, n) : a \in RuleAddrs, n \in PrefixLens }
    \cup { CIDR(V6Str, 8), CIDR(BadStr, 8), BadMask(V4(10, 0, 0, 0)), ThreeParts(V4(10, 0, 0, 0)) }

\* addresses asked: the rule addresses, their networks' ends and neighbours
MatchAddrs ==
    { <<192, 168, 1, 0>>, <<192, 168, 1, 10>>, <<192, 168, 1, 11>>, <<192, 168, 1, 255>>,
      <<192, 168, 2, 0>>, <<192, 168, 0, 255>>, <<10, 0, 0, 0>>, <<10, 1, 2, 3>>,
      <<11, 0, 0, 1>>, <<129, 255, 0, 7>>, <<128, 0, 0, 0>>, <<1, 255, 0, 7>>,
      <<0, 0, 0, 0>>, <<255, 255, 255, 255>> }

MatchInit ==
    /\ FirewallOff
    /\ GeoOff
    /\ \E r \in MatchRules, a \in MatchAddrs :
          probe = [pc |-> "rule", rule |-> r, addr |-> a, s |-> << >>, out |-> << >>]

\* newIPMatcher(rule)
NewMatcher ==
    /\ probe.pc = "rule"
    /\ LET s == newIPMatcher(probe.rule)
       IN  probe' = [probe EXCEPT !.pc = IF s.fatal THEN "fatal" ELSE "made", !.s = <<s>>]
    /\ UNCHANGED <<fwVars, geoVars>>

\* s.match(ip)
Match ==
    /\ probe.pc = "made"
    /\ probe' = [probe EXCEPT !.pc = "matched", !.out = << match(probe.s[1], probe.addr) >>]
    /\ UNCHANGED <<fwVars, geoVars>>

MatchNext == NewMatcher \/ Match

MatchSpec == MatchInit /\ [][MatchNext]_vars

\* New with one whitelist rule, for every rule text
MaxRuleCalls == 2
MaxRuleTime == 2
RuleInit ==
    \E r \in MatchRules :
        New(Args(<<r>>, TRUE, TRUE, FALSE, Policy(1, 2, 5)), {1},
            [calls |-> MaxRuleCalls, time |-> MaxRuleTime])

RuleSpec == RuleInit /\ [][Next]_vars

\* New with a backend and no whitelist, for policies with Count >= 1 whose
\* ban period is shorter than, equal to and longer than Duration
MaxPolicyCalls == 4
MaxPolicyTime == 3
Policies ==
    { Policy(1, 1, 1), Policy(2, 1, 1), Policy(1, 1, 2), Policy(2, 1, 2), Policy(1, 2, 1) }
PolicyInit ==
    \E pol \in Policies :
        New(Args(NoWhiteList, TRUE, TRUE, FALSE, pol), {1},
            [calls |-> MaxPolicyCalls, time |-> MaxPolicyTime])

PolicySpec == PolicyInit /\ [][Next]_vars

\* Scheduling.  A backend or logger call returns, so the consumer leaves each
\* of its calls.  Back in select, the Go runtime picks among the cases that
\* can proceed uniformly at random, and the senders blocked on one channel
\* are served first come first served: a sender that stays blocked while the
\* consumer comes back to select again and again is taken.
MaxLiveCalls == 3
MaxLiveTime == 2

Fairness ==
    /\ WF_vars(BackendCall)
    /\ WF_vars(BanLog)
    /\ WF_vars(LogCall)
    /\ \A p \in Producers : SF_vars(RecvBan(p)) /\ SF_vars(RecvCount(p))

\* every producer calling, the construction of the tests, fair scheduling
LiveInit == New(TestArgs, Producers, [calls |-> MaxLiveCalls, time |-> MaxLiveTime])

LiveSpec == LiveInit /\ [][Next]_vars /\ Fairness

\* ------------------------------------------------------ the geo component
\* (ipgeo/mm.go)  The clock gnow counts half hours.  A file is its size, its
\* modification time and whether geoip2.Open accepts its content; the data a
\* reader answers with is named by the size and modification time of the
\* file it was opened on.
MaxGeoTime == 4
MaxGeoSteps == 4

\* checkUpdateInterval = 1 * time.Hour
CheckUpdateInterval == 2

File(sz, mt, ok) == [exists |-> TRUE, size |-> sz, mtime |-> mt, valid |-> ok]
NoFile == [exists |-> FALSE, size |-> 0, mtime |-> ZeroTime, valid |-> FALSE]
FileSizes == {1, 2}
Staged == {"updatedCity", "updatedASN"}

\* what a copy may come to: all of it written and the ModTime set; all of it
\* written but os.Chtimes failed (its error is not looked at); nothing
\* written (source not regular, Open or Create failed); or the destination
\* truncated and io.Copy failed
CopyOutcomes == {"ok", "ok, times not set", "no write", "partial"}

\* copy returned nil
CopyDone(outcome) == outcome \in {"ok", "ok, times not set"}

\* addresses asked of the component
GeoIPs == { IPA, BadStr }

\* &IPGeo{IP: ip}: the address and nothing else
AddressOnly(ip) == [IP |-> ip, City |-> << >>, ASO |-> << >>]

\* as StatErr, for an update check that does not look at the errors of os.Stat
StatErrIgnored(cur, latest) == FALSE

\* os.Stat fails on either file
StatErr(cur, latest) == ~cur.exists \/ ~latest.exists

\* as isFileUpdated, but reporting every staged file as new
isFileUpdatedAlways(cur, latest) == TRUE

\* as isFileUpdated, but comparing only the sizes
isFileUpdatedSizeOnly(cur, latest) == cur.size # latest.size

\* isFileUpdated, when both files can be stat'ed: size or ModTime differ
isFileUpdated(cur, latest) == cur.size # latest.size \/ cur.mtime # latest.mtime

\* copy(src, dst, srcStat) at time t: the destination afterwards.  os.Chtimes
\* gives it the source's ModTime, also after a failed io.Copy; where Chtimes
\* fails the ModTime is the time of the write
CopyFile(src, dst, outcome, t) ==
    IF outcome = "ok" THEN src
    ELSE IF outcome = "ok, times not set" THEN File(src.size, t, src.valid)
    ELSE IF outcome = "partial" THEN File(src.size - 1, src.mtime, FALSE)
    ELSE dst

\* geoip2.Open succeeds on both files
CanOpen(files) ==
    /\ files.city.exists /\ files.city.valid
    /\ files.asn.exists /\ files.asn.valid

\* NewMMIPGeo: a handle with two readers, open on the live files
NewMMIPGeo(files) ==
    [open |-> TRUE, city |-> <<files.city.size, files.city.mtime>>,
     asn |-> <<files.asn.size, files.asn.mtime>>]

\* MMIPGeo.Close: both readers closed
Close(rs, h) == [rs EXCEPT ![h].open = FALSE]

\* as TooEarly, but with the check allowed again at any later time
TooEarlySameInstant(lc, t) == lc # ZeroTime /\ t - lc < 1

\* time.Since(db.lastCheck) < checkUpdateInterval; the zero time is long ago
TooEarly(lc, t) == lc # ZeroTime /\ t - lc < CheckUpdateInterval

\* db.update() at time t on the component db = [mm, readers, lastCheck] and
\* the files, with cc and ca what the copies come to if they are made.
\* crashed: db.mm.Close() was called with db.mm nil.
update(db, files, t, cc, ca) ==
    LET early == [mm |-> db.mm, readers |-> db.readers, lastCheck |-> db.lastCheck,
                  files |-> files, crashed |-> FALSE, inspected |-> FALSE, differ |-> {},
                  copies |-> << >>, tried |-> FALSE, reopened |-> FALSE]
        checked == [early EXCEPT !.lastCheck = t, !.inspected = TRUE]
    IN  IF TooEarly(db.lastCheck, t) THEN early
        ELSE IF StatErr(files.city, files.updatedCity) THEN checked
        ELSE IF StatErr(files.asn, files.updatedASN) THEN checked
        ELSE
        LET cityDBUpdated == isFileUpdated(files.city, files.updatedCity)
            asnDBUpdated == isFileUpdated(files.asn, files.updatedASN)
            d == (IF cityDBUpdated THEN {"city"} ELSE {}) \cup
                 (IF asnDBUpdated THEN {"asn"} ELSE {})
            found == [checked EXCEPT !.differ = d]
        IN  IF ~cityDBUpdated /\ ~asnDBUpdated THEN found
            ELSE IF db.mm = << >> THEN [found EXCEPT !.crashed = TRUE]
            ELSE
            LET closed == Close(db.readers, db.mm[1])
                f1 == IF cityDBUpdated
                      THEN [files EXCEPT !.city = CopyFile(files.updatedCity, @, cc, t)]
                      ELSE files
                c1 == IF cityDBUpdated THEN << [file |-> "city", outcome |-> cc] >> ELSE << >>
                f2 == IF asnDBUpdated
                      THEN [f1 EXCEPT !.asn = CopyFile(files.updatedASN, @, ca, t)]
                      ELSE f1
                c2 == IF asnDBUpdated THEN Append(c1, [file |-> "asn", outcome |-> ca]) ELSE c1
            IN  IF cityDBUpdated /\ ~CopyDone(cc)
                THEN [found EXCEPT !.readers = closed, !.files = f1, !.copies = c1]
                ELSE IF asnDBUpdated /\ ~CopyDone(ca)
                THEN [found EXCEPT !.readers = closed, !.files = f2, !.copies = c2]
                ELSE IF CanOpen(f2)
                THEN [found EXCEPT !.mm = << Len(closed) + 1 >>,
                                   !.readers = Append(closed, NewMMIPGeo(f2)),
                                   !.files = f2, !.copies = c2, !.tried = TRUE,
                                   !.reopened = TRUE]
                ELSE [found EXCEPT !.mm = << >>, !.readers = closed, !.files = f2,
                                   !.copies = c2, !.tried = TRUE]

\* MMIPGeo.GetIPGeo: a closed reader and an address that does not parse give
\* an error and an empty answer, which leaves the fields empty
MMGetIPGeo(h, ip) ==
    [IP |-> ip,
     City |-> IF h.open /\ ip.form # "bad" THEN << h.city >> ELSE << >>,
     ASO |-> IF h.open /\ ip.form # "bad" THEN << h.asn >> ELSE << >>]

\* the lookup of AutoUpdateMMIPGeo.GetIPGeo after its update()
Lookup(m, rs, ip) == IF m = << >> THEN AddressOnly(ip) ELSE MMGetIPGeo(rs[m[1]], ip)

\* cc and ca are what the copies of this update came to; a copy that is not
\* made has no outcome to choose
Chosen(u, cc, ca) ==
    /\ cc = "ok" \/ \E i \in 1..Len(u.copies) : u.copies[i] = [file |-> "city", outcome |-> cc]
    /\ ca = "ok" \/ \E i \in 1..Len(u.copies) : u.copies[i] = [file |-> "asn", outcome |-> ca]

\* the record of a call for the claims
Call(op, ip, u) ==
    [op |-> op, ip |-> ip, inspected |-> u.inspected, differ |-> u.differ, copies |-> u.copies,
     tried |-> u.tried, mm0 |-> mm, readers0 |-> readers, files0 |-> gfiles, lastCheck0 |-> lastCheck,
     rec |-> IF u.crashed THEN << >> ELSE << Lookup(u.mm, u.readers, ip) >>]

\* before NewAutoUpdateMMIPGeo: live files in place; each staged file is the
\* live one, a different one (that opens or not), or missing
LiveFile == File(1, StartTime, TRUE)
GeoInit ==
    /\ FirewallOff
    /\ probe = NoProbe
    /\ \E v \in BOOLEAN,
          sc \in {LiveFile, File(2, StartTime, TRUE), File(2, StartTime, FALSE), NoFile},
          sa \in {LiveFile, File(1, StartTime + 1, TRUE), NoFile} :
          gfiles = [city |-> File(1, StartTime, v), updatedCity |-> sc,
                    asn |-> LiveFile, updatedASN |-> sa]
    /\ mm = << >>
    /\ readers = << >>
    /\ lastCheck = ZeroTime
    /\ gnow = StartTime + 1
    /\ gpc = "new"
    /\ glast = NoCall
    /\ gsteps = 0

\* NewAutoUpdateMMIPGeo: open the live files, then the first update check
NewAutoUpdateMMIPGeo ==
    /\ gpc = "new"
    /\ IF ~CanOpen(gfiles)
       THEN /\ gpc' = "failed"
            /\ glast' = NoCall
            /\ UNCHANGED <<gfiles, mm, readers, lastCheck>>
       ELSE \E cc, ca \in CopyOutcomes :
              LET db == [mm |-> <<1>>, readers |-> << NewMMIPGeo(gfiles) >>,
                         lastCheck |-> ZeroTime]
                  u == update(db, gfiles, gnow, cc, ca)
              IN  /\ Chosen(u, cc, ca)
                  /\ gfiles' = u.files
                  /\ mm' = u.mm
                  /\ readers' = u.readers
                  /\ lastCheck' = u.lastCheck
                  /\ gpc' = "run"
                  /\ glast' = [Call("new", BadStr, u) EXCEPT !.mm0 = db.mm,
                                                             !.readers0 = db.readers,
                                                             !.rec = << >>]
    /\ gsteps' = gsteps + 1
    /\ UNCHANGED <<fwVars, probe, gnow>>

\* AutoUpdateMMIPGeo.GetIPGeo(ip)
GetIPGeoCall ==
    /\ gpc = "run"
    /\ gsteps < MaxGeoSteps
    /\ \E ip \in GeoIPs, cc, ca \in CopyOutcomes :
          LET u == update([mm |-> mm, readers |-> readers, lastCheck |-> lastCheck],
                          gfiles, gnow, cc, ca)
          IN  /\ Chosen(u, cc, ca)
              /\ gfiles' = u.files
              /\ mm' = u.mm
              /\ readers' = u.readers
              /\ lastCheck' = u.lastCheck
              /\ gpc' = IF u.crashed THEN "crashed" ELSE "run"
              /\ glast' = Call("get", ip, u)
    /\ gsteps' = gsteps + 1
    /\ UNCHANGED <<fwVars, probe, gnow>>

\* whoever provides the databases writes a staged file
Stage ==
    /\ gpc = "run"
    /\ gsteps < MaxGeoSteps
    /\ \E f \in Staged, sz \in FileSizes, ok \in BOOLEAN :
          /\ gfiles[f] # File(sz, gnow, ok)
          /\ gfiles' = [gfiles EXCEPT ![f] = File(sz, gnow, ok)]
    /\ glast' = NoCall
    /\ gsteps' = gsteps + 1
    /\ UNCHANGED <<fwVars, probe, mm, readers, lastCheck, gnow, gpc>>

\* ... or removes one
Unstage ==
    /\ gpc = "run"
    /\ gsteps < MaxGeoSteps
    /\ \E f \in Staged :
          /\ gfiles[f].exists
          /\ gfiles' = [gfiles EXCEPT ![f] = NoFile]
    /\ glast' = NoCall
    /\ gsteps' = gsteps + 1
    /\ UNCHANGED <<fwVars, probe, mm, readers, lastCheck, gnow, gpc>>

\* half an hour passes
GeoTick ==
    /\ gpc \in {"new", "run"}
    /\ gnow < MaxGeoTime
    /\ gnow' = gnow + 1
    /\ glast' = NoCall
    /\ UNCHANGED <<fwVars, probe, gfiles, mm, readers, lastCheck, gpc, gsteps>>

GeoNext == NewAutoUpdateMMIPGeo \/ GetIPGeoCall \/ Stage \/ Unstage \/ GeoTick

GeoSpec == GeoInit /\ [][GeoNext]_vars

\* ------------------------------------------------------------------ claims
\* an IPv4 address that some whitelist rule matches / that none matches
MatchedByRule(ip) ==
    /\ ip.form = "v4"
    /\ \E i \in 1..Len(whiteList) : match(whiteList[i], ip.bytes)

NotWhitelisted(ip) == ip.form = "v4" /\ ~MatchedByRule(ip)

Last(q) == q[Len(q)]

C2_BanIPOnce ==
    (ev.kind = "ban" /\ NotWhitelisted(ev.ip)) =>
        /\ cpc \in {"doBanIP", "banLog", "select"}
        /\ cpc = "doBanIP" => ev.fw = << >> /\ ev.logs = << >>
        /\ cpc # "doBanIP" =>
              ev.fw = IF fw THEN << [ip |-> ev.ip, timeoutInMinute |-> ev.minutes] >> ELSE << >>
        /\ cpc = "banLog" => ev.logs = << >>
        /\ cpc = "select" =>
              /\ Len(ev.logs) = 1
              /\ ev.logs[1].ip = ev.ip
              /\ ev.logs[1].action = "ban"
              /\ ev.logs[1].reasons = ev.reasons
              /\ Len(ev.reasons) = 1

\* a direct ban has completed, with a backend, for an address that is Banned
C2_Witness ==
    /\ ev.kind = "ban"
    /\ NotWhitelisted(ev.ip)
    /\ cpc = "select"
    /\ fw
    /\ ev.ip \in DOMAIN ev.before
    /\ ev.before[ev.ip].bannedUntil > ev.t

\* the count-error events handled for an address, as indices of hist
EventsOf(ip) == { i \in 1..Len(hist) : hist[i].ip = ip }

\* the event the consumer took last is the last count-error event of hist
LastIsCount == ev.kind = "count" /\ NotWhitelisted(ev.ip) /\ Len(hist) > 0 /\ Last(hist).ip = ev.ip

\* C3: with Count = N >= 1, while the first N+1 LogIPError events of an
\* address all fall less than one Duration after the first, events 1..N each
\* give one "count error" log and no backend call, and event N+1 gives one
\* "ban" log and one backend call (with a backend configured).
C3_ThresholdThenBan ==
    (LastIsCount /\ forgivable.Count >= 1) =>
        LET idx == EventsOf(ev.ip)
            n == Cardinality(idx)
            first == CHOOSE i \in idx : \A j \in idx : i <= j
        IN  (n <= forgivable.Count + 1 /\ Last(hist).t - hist[first].t < forgivable.Duration) =>
                IF n <= forgivable.Count
                THEN /\ Last(hist).action = "count error"
                     /\ ev.fw = << >>
                     /\ cpc \in {"log", "select"}
                     /\ cpc = "log" => ev.logs = << >>
                     /\ cpc = "select" => Len(ev.logs) = 1 /\ ev.logs[1].action = "count error"
                ELSE /\ Last(hist).action = "ban"
                     /\ cpc \in {"doBanIP", "banLog", "select"}
                     /\ cpc = "doBanIP" => ev.fw = << >>
                     /\ cpc # "select" => ev.logs = << >>
                     /\ cpc = "select" =>
                           /\ Len(ev.logs) = 1
                           /\ ev.logs[1].action = "ban"
                           /\ Len(ev.fw) = IF fw THEN 1 ELSE 0

\* the third error of an address under Count = 2 has been answered with a ban
C3_Witness ==
    /\ LastIsCount
    /\ forgivable.Count = 2
    /\ Cardinality(EventsOf(ev.ip)) = 3
    /\ Last(hist).action = "ban"
    /\ fw
    /\ cpc = "select"
    /\ Len(ev.fw) = 1

\* C4: a LogIPError for an address whose bannedUntil is in the future gives
\* one "banned" log and nothing else: no backend call, and the counter table
\* (FIFO, limiter, bannedUntil) is as before; so two bans of the error path
\* for one address are at least one ban period apart.
C4_BannedAbsorbs ==
    /\ (ev.kind = "count" /\ ev.ip \in DOMAIN ev.before
           /\ ev.before[ev.ip].bannedUntil > ev.t) =>
          /\ errorCount = ev.before
          /\ ev.fw = << >>
          /\ cpc \in {"log", "select"}
          /\ cpc = "log" => ev.logs = << >>
          /\ cpc = "select" =>
                ev.logs = << LogEntry(ev.ip, ZeroTime, ev.reasons, "banned", << >>) >>
    /\ \A i, j \in 1..Len(hist) :
          (i < j /\ hist[i].ip = hist[j].ip /\ hist[i].action = "ban" /\ hist[j].action = "ban")
              => hist[j].t >= hist[i].t + forgivable.BanInMinute

\* an error has been absorbed by a ban, after time has passed since the ban
C4_Witness ==
    /\ ev.kind = "count"
    /\ ev.ip \in DOMAIN ev.before
    /\ ev.before[ev.ip].bannedUntil > ev.t
    /\ cpc = "select"
    /\ \E i \in EventsOf(ev.ip) : hist[i].action = "ban" /\ hist[i].t < ev.t
    /\ ev.before[ev.ip].reasons = << >>

\* the count-error events of the address of event j handled in the window of
\* one Duration that ends at event j, both ends counted
InWindow(j) ==
    { i \in 1..j : hist[i].ip = hist[j].ip /\ hist[i].t >= hist[j].t - forgivable.Duration }

\* C5: a LogIPError event escalates to a ban only if more than Count errors
\* of the address were handled in the window of length Duration ending at it.
C5_BanOnlyWhenExceeded ==
    \A j \in 1..Len(hist) :
        (hist[j].action = "ban" /\ NotWhitelisted(hist[j].ip))
            => Cardinality(InWindow(j)) > forgivable.Count

\* events i..j of one address, at least Count + 1 of them, less than one
\* Duration apart
Burst(i, j) ==
    /\ i <= j
    /\ hist[i].ip = hist[j].ip
    /\ NotWhitelisted(hist[j].ip)
    /\ forgivable.Count >= 1
    /\ hist[j].t - hist[i].t < forgivable.Duration
    /\ Cardinality({ k \in i..j : hist[k].ip = hist[j].ip }) > forgivable.Count

NotForgiven(k) == hist[k].action \in {"ban", "banned"}

\* C6 as stated: at the last of more than Count errors of an address handled
\* less than one Duration apart, a ban is issued or the address is Banned.
C6_BannedAtLast ==
    \A i, j \in 1..Len(hist) : Burst(i, j) => NotForgiven(j)

\* C6 amended: of more than Count errors of an address handled less than one
\* Duration apart, at least one issues a ban or is absorbed by a ban in force.
C6_BannedWithinBurst ==
    \A i, j \in 1..Len(hist) :
        Burst(i, j) => \E k \in i..j : hist[k].ip = hist[j].ip /\ NotForgiven(k)

\* a burst whose last error issued the ban
C6_Witness ==
    \E i, j \in 1..Len(hist) :
        /\ Burst(i, j)
        /\ hist[j].action = "ban"
        /\ \A k \in i..(j - 1) : hist[k].action = "count error"
        /\ hist[i].t < hist[j].t

\* C7: a LogIPError event for an address no rule matches makes one logger
\* call, with action "count error", "banned" or "ban"; a "count error" or
\* "banned" log has a zero jailUntil, no geo record and only the current
\* reason.
C7_OneLogPerError ==
    (ev.kind = "count" /\ NotWhitelisted(ev.ip)) =>
        /\ cpc \in {"log", "doBanIP", "banLog", "select"}
        /\ cpc # "select" => ev.logs = << >>
        /\ cpc = "log" =>
              /\ pend.action \in {"count error", "banned"}
              /\ pend = LogEntry(ev.ip, ZeroTime, ev.reasons, pend.action, << >>)
        /\ cpc = "select" =>
              /\ Len(ev.logs) = 1
              /\ ev.logs[1].action \in {"count error", "banned", "ban"}
              /\ ev.logs[1].action = Last(hist).action
              /\ ev.logs[1].action \in {"count error", "banned"} =>
                    ev.logs[1] = LogEntry(ev.ip, ZeroTime, ev.reasons, ev.logs[1].action, << >>)
        /\ Len(ev.reasons) = 1

\* a counted error logged while the FIFO holds an earlier reason too
C7_Witness ==
    /\ ev.kind = "count"
    /\ NotWhitelisted(ev.ip)
    /\ cpc = "select"
    /\ ev.logs[1].action = "count error"
    /\ Len(errorCount[ev.ip].reasons) = 2

\* the consumer takes an event in this step
Takes ==
    \/ \E p \in Producers : pcP[p] # "idle" /\ pcP'[p] = "idle"
    \/ Len(banCh') < Len(banCh)
    \/ Len(countCh') < Len(countCh)

\* a producer's call returns in this step
Returns(p) == pcP[p] # "idle" /\ pcP'[p] = "idle"

\* C8: the consumer takes an event only when the one before is finished (all
\* its calls made, nothing pending), the calls made between two takes are
\* those of the event taken, and the counter table changes only as the
\* consumer takes an event.
C8_OneAtATime ==
    [][ /\ Takes => cpc = "select" /\ ev.done /\ pend = NoMsg
        /\ errorCount' # errorCount => Takes
        /\ (~Takes /\ (ev'.logs # ev.logs \/ ev'.fw # ev.fw)) =>
              /\ ~ev.done
              /\ [ev' EXCEPT !.logs = << >>, !.fw = << >>, !.done = FALSE]
                    = [ev EXCEPT !.logs = << >>, !.fw = << >>, !.done = FALSE]
      ]_vars

\* two producers blocked while the consumer is in a call of a third event
C8_Witness ==
    /\ cpc \in {"doBanIP", "banLog", "log"}
    /\ \A p \in Producers : p <= 2 => pcP[p] # "idle"

\* C9: a call returns only in the step in which the consumer, waiting in
\* select, takes that call's event; no value is ever held in a channel; and
\* every call blocks first.
C9_BlockingSubmit ==
    [][ /\ \A p \in Producers : Returns(p) =>
              /\ cpc = "select"
              /\ ev'.from = p
              /\ ev'.ip = msg[p].ip
              /\ ev'.kind = (IF pcP[p] = "BanIP" THEN "ban" ELSE "count")
        /\ banCh' = << >> /\ countCh' = << >>
        /\ nCalls' # nCalls => \E p \in Producers : pcP[p] = "idle" /\ pcP'[p] # "idle"
      ]_vars

\* a call has returned while the other producer stays blocked behind a call
\* of the consumer
C9_Witness ==
    /\ cpc \in {"doBanIP", "banLog", "log"}
    /\ \E p \in Producers : pcP[p] = "idle" /\ ev.from = p
    /\ \E p \in Producers : pcP[p] # "idle"

\* C10: a "ban" log carries the geo record of the banned address when New was
\* given a geo lookup, and no geo record when it was given none.
C10_BanLogGeo ==
    \A i \in 1..Len(ev.logs) :
        ev.logs[i].action = "ban" =>
            ev.logs[i].geo = IF ipGeoArg THEN << GetIPGeo(ev.logs[i].ip) >> ELSE << >>

\* C11: without a backend no backend call is ever made, and the rest is as
\* with one: a direct BanIP gives one "ban" log; an error the limiter refuses
\* sets bannedUntil to the time of the event plus the ban period, empties the
\* reason FIFO and gives one "ban" log; later errors before bannedUntil give
\* one "banned" log each.
C11_NoBackend ==
    ~fw =>
        /\ ev.fw = << >>
        /\ (ev.kind = "ban" /\ NotWhitelisted(ev.ip) /\ cpc = "select") =>
              /\ Len(ev.logs) = 1
              /\ ev.logs[1].action = "ban"
              /\ ev.logs[1].ip = ev.ip
              /\ ev.logs[1].reasons = ev.reasons
              /\ ev.logs[1].jailUntil >= ev.t + ev.minutes
        /\ (LastIsCount /\ Last(hist).action = "ban") =>
              /\ errorCount[ev.ip].bannedUntil = ev.t + forgivable.BanInMinute
              /\ errorCount[ev.ip].reasons = << >>
              /\ cpc \in {"doBanIP", "banLog", "select"}
              /\ cpc # "select" => ev.logs = << >>
              /\ cpc = "select" =>
                    /\ Len(ev.logs) = 1
                    /\ ev.logs[1].action = "ban"
                    /\ ev.logs[1].ip = ev.ip
                    /\ Last(ev.logs[1].reasons) = ev.reasons[1]
        /\ (LastIsCount /\ \E i \in EventsOf(ev.ip) :
                  hist[i].action = "ban" /\ i < Len(hist)
                      /\ ev.t < hist[i].t + forgivable.BanInMinute) =>
              /\ Last(hist).action = "banned"
              /\ cpc = "select" =>
                    ev.logs = << LogEntry(ev.ip, ZeroTime, ev.reasons, "banned", << >>) >>

\* without a backend, an error has been absorbed by the ban of an earlier error
C11_Witness ==
    /\ ~fw
    /\ LastIsCount
    /\ Last(hist).action = "banned"
    /\ cpc = "select"
    /\ \E i \in EventsOf(ev.ip) : hist[i].action = "ban"

\* bit k (1 the highest, 32 the lowest) of an IPv4 address
Bit(x, k) == (x[((k - 1) \div 8) + 1] \div Pow2(7 - ((k - 1) % 8))) % 2

\* a rule text that is an IPv4 address, or an IPv4 address, '/', and a
\* prefix length of 0..32
WellFormed(rule) ==
    /\ Len(rule) \in {1, 2}
    /\ rule[1].addr.form = "v4"
    /\ Len(rule) = 2 => rule[2].digits /\ rule[2].val \in 0..32

\* the reference: equal addresses for a bare rule, equal first p bits for a/p
RefMatch(rule, x) ==
    IF Len(rule) = 1 THEN x = rule[1].addr.bytes
    ELSE \A k \in 1..rule[2].val : Bit(x, k) = Bit(rule[1].addr.bytes, k)

\* C12: for every IPv4 rule and IPv4 address, match answers as the reference:
\* equality for a bare address, equality of the first p bits for a/p.
C12_MatchAgreesWithReference ==
    (probe.pc = "matched" /\ WellFormed(probe.rule)) =>
        probe.out = << RefMatch(probe.rule, probe.addr) >>

\* the broadcast address of a /24 whose rule carries host bits has been matched
C12_Witness ==
    /\ probe.pc = "matched"
    /\ probe.rule = CIDR(V4(192, 168, 1, 10), 24)
    /\ probe.addr = <<192, 168, 1, 255>>
    /\ probe.out = << TRUE >>

\* C13: New ends fatally when a whitelist rule is not a well-formed IPv4
\* address or IPv4 CIDR, so the consumer is never started with such a rule.
C13_IllFormedRuleFatal ==
    (cpc # "off" /\ \E i \in 1..Len(whiteListArg) : ~WellFormed(whiteListArg[i])) =>
        cpc = "fatal"

\* the last step was a call of the geo component that ran an update check
\* which looked at the files
Inspected == glast.op \in {"new", "get"} /\ glast.inspected

AllExist(files) ==
    files.city.exists /\ files.updatedCity.exists /\ files.asn.exists /\ files.updatedASN.exists

\* the databases whose staged file is not the live file in size or in
\* modification time
Differing(files) ==
    { d \in {"city"} : files.city.size # files.updatedCity.size
                          \/ files.city.mtime # files.updatedCity.mtime }
    \cup { d \in {"asn"} : files.asn.size # files.updatedASN.size
                              \/ files.asn.mtime # files.updatedASN.mtime }

\* C14: an update check that finds both live files equal to their staged
\* files in size and modification time leaves the handle as it was (the same
\* handle, still open, no other handle made) and writes no file.
C14_NoUpdateNoChange ==
    (Inspected /\ AllExist(glast.files0) /\ Differing(glast.files0) = {}) =>
        /\ mm = glast.mm0
        /\ readers = glast.readers0
        /\ gfiles = glast.files0

\* a check an interval after the first has found nothing new and kept an
\* open handle
C14_Witness ==
    /\ Inspected
    /\ glast.op = "get"
    /\ AllExist(glast.files0)
    /\ Differing(glast.files0) = {}
    /\ mm # << >>
    /\ readers[mm[1]].open
    /\ glast.rec = << MMGetIPGeo(readers[mm[1]], IPA) >>

\* two files with the same content
SameContent(f, g) == f.exists = g.exists /\ f.size = g.size /\ f.valid = g.valid

\* the files a swap leaves live when every copy succeeds and keeps the
\* staged file's modification time
AfterCopy(files) ==
    [files EXCEPT !.city = IF "city" \in Differing(files) THEN files.updatedCity ELSE @,
                  !.asn = IF "asn" \in Differing(files) THEN files.updatedASN ELSE @]

\* the last call ran an update check that found a staged file different,
\* with a handle in place, every copy succeeding and the reopen succeeding
SwapSucceeds ==
    /\ Inspected
    /\ AllExist(glast.files0)
    /\ Differing(glast.files0) # {}
    /\ glast.mm0 # << >>
    /\ \A i \in 1..Len(glast.copies) : CopyDone(glast.copies[i].outcome)
    /\ AfterCopy(glast.files0).city.valid
    /\ AfterCopy(glast.files0).asn.valid

\* C15: such an update check closes the old handle, copies exactly the
\* staged files that differed, and installs one new handle whose two readers
\* are open on the updated live files; the lookup that follows is answered
\* by the new handle.
C15_SwapOnUpdate ==
    SwapSucceeds =>
        /\ ~readers[glast.mm0[1]].open
        /\ SameContent(gfiles.city, AfterCopy(glast.files0).city)
        /\ SameContent(gfiles.asn, AfterCopy(glast.files0).asn)
        /\ "city" \notin Differing(glast.files0) => gfiles.city = glast.files0.city
        /\ "asn" \notin Differing(glast.files0) => gfiles.asn = glast.files0.asn
        /\ gfiles.updatedCity = glast.files0.updatedCity
        /\ gfiles.updatedASN = glast.files0.updatedASN
        /\ { glast.copies[i].file : i \in 1..Len(glast.copies) } = Differing(glast.files0)
        /\ mm # << >>
        /\ mm[1] \notin DOMAIN glast.readers0
        /\ Len(readers) = Len(glast.readers0) + 1
        /\ readers[mm[1]] = [open |-> TRUE,
                              city |-> <<gfiles.city.size, gfiles.city.mtime>>,
                              asn |-> <<gfiles.asn.size, gfiles.asn.mtime>>]
        /\ \A h \in DOMAIN glast.readers0 : ~readers[h].open
        /\ glast.op = "get" => glast.rec = << MMGetIPGeo(readers[mm[1]], glast.ip) >>

\* a GetIPGeo has swapped in only the city database, staged with a new
\* modification time and the old size, and answered from it
C15_Witness ==
    /\ SwapSucceeds
    /\ glast.op = "get"
    /\ Differing(glast.files0) = {"city"}
    /\ glast.files0.city.size = glast.files0.updatedCity.size
    /\ glast.ip = IPA
    /\ glast.rec[1].City = << <<gfiles.updatedCity.size, gfiles.updatedCity.mtime>> >>

\* C16: a check that looks at the files comes at least one check interval
\* after the one before, and a GetIPGeo less than one interval after the last
\* check looks at no file and leaves the handle, lastCheck and the files as
\* they were.
C16_Throttled ==
    /\ lastCheck <= gnow
    /\ glast.op = "get" =>
          /\ glast.inspected => gnow - glast.lastCheck0 >= CheckUpdateInterval
          /\ gnow - glast.lastCheck0 < CheckUpdateInterval =>
                /\ ~glast.inspected
                /\ mm = glast.mm0
                /\ readers = glast.readers0
                /\ lastCheck = glast.lastCheck0
                /\ gfiles = glast.files0

\* a GetIPGeo half an hour after a check has left a new staged file alone
C16_Witness ==
    /\ glast.op = "get"
    /\ gnow - glast.lastCheck0 = CheckUpdateInterval - 1
    /\ AllExist(gfiles)
    /\ Differing(gfiles) # {}
    /\ mm # << >>
    /\ readers[mm[1]].open

\* C17: a failed reopen leaves no handle, and every GetIPGeo made with no
\* handle, and leaving none, returns the record with only the address.
C17_NoHandleAddressOnly ==
    /\ (Inspected /\ AllExist(glast.files0) /\ Differing(glast.files0) # {}
           /\ glast.mm0 # << >>
           /\ Len(glast.copies) = Cardinality(Differing(glast.files0))
           /\ (\A i \in 1..Len(glast.copies) : CopyDone(glast.copies[i].outcome))
           /\ ~CanOpen(gfiles)) => mm = << >>
    /\ (glast.op = "get" /\ glast.mm0 = << >> /\ mm = << >>) =>
          glast.rec = << AddressOnly(glast.ip) >>

\* C18: no call of the geo component crashes, and every GetIPGeo returns a
\* record that carries the address asked.
C18_GeoNeverCrashes ==
    /\ gpc # "crashed"
    /\ glast.op = "get" => Len(glast.rec) = 1 /\ glast.rec[1].IP = glast.ip

\* C19: after every event, whatever its address string and whatever the
\* whitelist, the consumer is handling the event or back at the select: the
\* process is not terminated.
C19_LoopForever ==
    ev.kind # "none" => cpc \in {"select", "log", "doBanIP", "banLog"}

\* C20: the reason FIFO of every counter holds at most Count entries.
C20_FifoBounded ==
    \A ip \in DOMAIN errorCount : Len(errorCount[ip].reasons) <= forgivable.Count

\* an address has had more counted errors than Count, and its FIFO is full
C20_Witness ==
    /\ LastIsCount
    /\ forgivable.Count >= 1
    /\ Cardinality(EventsOf(ev.ip)) > forgivable.Count
    /\ Last(hist).action = "count error"
    /\ Len(errorCount[ev.ip].reasons) = forgivable.Count
    /\ Last(errorCount[ev.ip].reasons) = ev.reasons[1]

\* the bannedUntil an address had before the last event (the zero time
\* without a counter)
BannedUntilBefore(ip) ==
    IF ip \in DOMAIN ev.before THEN ev.before[ip].bannedUntil ELSE ZeroTime

\* C21: no counter is ever removed and no bannedUntil moves back; a
\* bannedUntil changes only in the escalation of an error of that address,
\* taken when the old bannedUntil was not in the future, and becomes the
\* time of that event plus the ban period.
C21_BannedUntilMonotone ==
    /\ \A ip \in DOMAIN ev.before : ip \in DOMAIN errorCount
    /\ \A ip \in DOMAIN errorCount :
          /\ errorCount[ip].bannedUntil >= BannedUntilBefore(ip)
          /\ errorCount[ip].bannedUntil # BannedUntilBefore(ip) =>
                /\ ev.kind = "count"
                /\ ev.ip = ip
                /\ BannedUntilBefore(ip) <= ev.t
                /\ Last(hist) = [ip |-> ip, t |-> ev.t, action |-> "ban"]
                /\ errorCount[ip].bannedUntil = ev.t + forgivable.BanInMinute

\* an address is banned a second time, after its first ban has run out
C21_Witness ==
    /\ LastIsCount
    /\ Last(hist).action = "ban"
    /\ BannedUntilBefore(ev.ip) # ZeroTime
    /\ BannedUntilBefore(ev.ip) <= ev.t
    /\ errorCount[ev.ip].bannedUntil > BannedUntilBefore(ev.ip)

\* the escalation of the last event is done: backend called, "ban" logged
EscalationDone == LastIsCount /\ Last(hist).action = "ban" /\ cpc = "select"

\* C22 as claimed: an error refused at time t sets bannedUntil = t + BanInMinute,
\* calls the backend with BanInMinute, and logs jailUntil = t + BanInMinute.
C22_JailUntilIsBannedUntil ==
    EscalationDone =>
        /\ errorCount[ev.ip].bannedUntil = ev.t + forgivable.BanInMinute
        /\ ev.fw = << [ip |-> ev.ip, timeoutInMinute |-> forgivable.BanInMinute] >>
        /\ Len(ev.logs) = 1
        /\ ev.logs[1].jailUntil = ev.t + forgivable.BanInMinute

\* C22 amended: an error refused at time t sets bannedUntil = t + BanInMinute
\* and calls the backend with BanInMinute; the "ban" log carries jailUntil =
\* t2 + BanInMinute, t2 being the clock read after the backend call, between
\* t and now; so jailUntil is never before bannedUntil.
C22_JailUntilFromLaterClock ==
    EscalationDone =>
        /\ errorCount[ev.ip].bannedUntil = ev.t + forgivable.BanInMinute
        /\ ev.fw = << [ip |-> ev.ip, timeoutInMinute |-> forgivable.BanInMinute] >>
        /\ Len(ev.logs) = 1
        /\ ev.logs[1].jailUntil >= errorCount[ev.ip].bannedUntil
        /\ ev.logs[1].jailUntil <= now + forgivable.BanInMinute

\* an escalation has logged a jailUntil one minute after bannedUntil
C22_Witness ==
    /\ EscalationDone
    /\ ev.logs[1].jailUntil = errorCount[ev.ip].bannedUntil + 1

\* the last n entries of q, oldest first
LastN(q, n) ==
    LET m == Min(n, Len(q)) IN [i \in 1..m |-> q[Len(q) - m + i]]

\* the errors of the address of the last event that were recorded (not
\* absorbed) after the last escalation before this event
SinceDrain ==
    { i \in EventsOf(ev.ip) :
        /\ hist[i].action # "banned"
        /\ \A j \in EventsOf(ev.ip) : (hist[j].action = "ban" /\ j < Len(hist)) => j < i }

\* the FIFO of the address before the last event, then the event's reason
RecordedReasons ==
    (IF ev.ip \in DOMAIN ev.before THEN ev.before[ev.ip].reasons ELSE << >>) \o ev.reasons

\* the reasons of the ban the consumer is carrying out or has logged
BanReasons == IF cpc = "select" THEN ev.logs[1].reasons ELSE pend.reasons

\* C23: with Count >= 1 a counted error leaves in the FIFO the last
\* min(Count, k) reasons recorded since the last drain, oldest first; the ban
\* of a refused error carries exactly those, ending with the reason of the
\* refused error, and leaves the FIFO empty.
C23_BanReasonsAreFifo ==
    (LastIsCount /\ forgivable.Count >= 1) =>
        LET k == Cardinality(SinceDrain)
            want == LastN(RecordedReasons, forgivable.Count)
        IN  /\ Last(hist).action = "count error" =>
                  /\ errorCount[ev.ip].reasons = want
                  /\ Len(want) = Min(forgivable.Count, k)
            /\ Last(hist).action = "ban" =>
                  /\ BanReasons = want
                  /\ Len(BanReasons) = Min(forgivable.Count, k)
                  /\ Last(BanReasons) = ev.reasons[1]
                  /\ \A i \in 1..(Len(BanReasons) - 1) : BanReasons[i] < BanReasons[i + 1]
                  /\ errorCount[ev.ip].reasons = << >>

\* a ban has been logged with two reasons after four recorded errors
C23_Witness ==
    /\ EscalationDone
    /\ forgivable.Count = 2
    /\ Cardinality(SinceDrain) = 4
    /\ Len(ev.logs[1].reasons) = 2

\* C24: in a ban the backend is called before the logger: before the
\* backend call nothing is logged and, in an escalation, bannedUntil is
\* already set; a "ban" log is there only after the backend call was made.
C24_BackendBeforeLog ==
    /\ cpc = "doBanIP" =>
          /\ ev.fw = << >>
          /\ ev.logs = << >>
          /\ ev.kind = "count" =>
                errorCount[ev.ip].bannedUntil = ev.t + forgivable.BanInMinute
    /\ cpc = "banLog" =>
          /\ ev.logs = << >>
          /\ fw => Len(ev.fw) = 1
    /\ \A i \in 1..Len(ev.logs) :
          (ev.logs[i].action = "ban" /\ fw) =>
              /\ Len(ev.fw) = 1
              /\ ev.fw[1].ip = ev.logs[i].ip

\* in an escalation the backend call has returned and nothing is logged yet
C24_Witness ==
    /\ cpc = "banLog"
    /\ ev.kind = "count"
    /\ Len(ev.fw) = 1
    /\ ev.logs = << >>

\* C25: a direct BanIP leaves the counter table as it was (no entry made,
\* none changed) and goes on to ban whatever the counter of the address says.
C25_BanIPLeavesCounters ==
    (ev.kind = "ban" /\ NotWhitelisted(ev.ip)) =>
        /\ errorCount = ev.before
        /\ cpc \in {"doBanIP", "banLog", "select"}
        /\ cpc = "select" => Len(ev.logs) = 1 /\ ev.logs[1].action = "ban"

\* a direct ban is done for an address that has counted errors and no ban
C25_Witness ==
    /\ ev.kind = "ban"
    /\ NotWhitelisted(ev.ip)
    /\ cpc = "select"
    /\ ev.ip \in DOMAIN errorCount
    /\ errorCount[ev.ip].reasons # << >>
    /\ errorCount[ev.ip].bannedUntil = ZeroTime

\* the last event is the first error of its address since an escalated ban
\* of that address ran out: the ban is over at the time of the event, and the
\* address's event before this one was that ban or an error it absorbed
FirstAfterExpiry ==
    /\ LastIsCount
    /\ BannedUntilBefore(ev.ip) # ZeroTime
    /\ BannedUntilBefore(ev.ip) <= ev.t
    /\ \E j \in EventsOf(ev.ip) :
          /\ j < Len(hist)
          /\ hist[j].action \in {"ban", "banned"}
          /\ \A i \in EventsOf(ev.ip) : i < Len(hist) => i <= j

\* C30 as claimed: for Count >= 1 and positive Duration and BanInMinute,
\* the first error after a ban has run out is counted, not banned.
C30_CountedAfterExpiry ==
    (FirstAfterExpiry /\ forgivable.Count >= 1 /\ forgivable.Duration > 0
         /\ forgivable.BanInMinute > 0) =>
        /\ Last(hist).action = "count error"
        /\ cpc = "select" => Len(ev.logs) = 1 /\ ev.logs[1].action = "count error"

\* C30 amended: the same for Count >= 1 and BanInMinute >= Duration > 0:
\* the limiter has then regained a token by the end of the ban.
C30_CountedAfterLongBan ==
    (FirstAfterExpiry /\ forgivable.Count >= 1 /\ forgivable.Duration > 0
         /\ forgivable.BanInMinute >= forgivable.Duration) =>
        /\ Last(hist).action = "count error"
        /\ cpc = "select" => Len(ev.logs) = 1 /\ ev.logs[1].action = "count error"

\* the first error after a ban as long as Duration has been logged as counted
C30_Witness ==
    /\ FirstAfterExpiry
    /\ forgivable.Count >= 1
    /\ forgivable.BanInMinute = forgivable.Duration
    /\ ev.t = BannedUntilBefore(ev.ip)
    /\ cpc = "select"
    /\ ev.logs[1].action = "count error"

\* C26: after an update check that copied the staged files that differed and
\* reopened, every live file has the size and the modification time of its
\* staged file, so the next check finds nothing to do.
C26_SwapIdempotent ==
    SwapSucceeds => AllExist(gfiles) /\ Differing(gfiles) = {}

\* C27: the handle of the component is absent, or open; a closed handle is
\* neither kept, nor closed again, nor asked.
C27_HandleOpenOrAbsent ==
    /\ gpc \in {"run", "crashed"} => mm = << >> \/ readers[mm[1]].open
    /\ glast.op = "get" => glast.mm0 = << >> \/ glast.readers0[glast.mm0[1]].open

\* C28: an update check that is due while the component has no handle
\* tries to open the databases, and ends with a handle if the live files
\* can be opened.
C28_RetryAtNextCheck ==
    (Inspected /\ glast.op = "get" /\ glast.mm0 = << >>) =>
        /\ gpc # "crashed"
        /\ glast.tried
        /\ CanOpen(gfiles) => mm # << >>

\* C29: an update check in which os.Stat fails on a file leaves the handle,
\* every reader and every file as they were and sets lastCheck to the time
\* of the check.
C29_StatErrorNoChange ==
    (Inspected /\ ~AllExist(glast.files0)) =>
        /\ gpc # "crashed"
        /\ mm = glast.mm0
        /\ readers = glast.readers0
        /\ gfiles = glast.files0
        /\ lastCheck = gnow
        /\ glast.copies = << >>

\* a due check with the staged asn file missing and a new staged city file
\* has kept the open handle, and the lookup is answered from it
C29_Witness ==
    /\ Inspected
    /\ glast.op = "get"
    /\ ~gfiles.updatedASN.exists
    /\ gfiles.updatedCity.exists
    /\ "city" \in Differing(gfiles)
    /\ mm # << >>
    /\ readers[mm[1]].open
    /\ glast.rec = << MMGetIPGeo(readers[mm[1]], glast.ip) >>

\* C31: with every backend and logger call returning, a call of BanIP or
\* LogIPError that is waiting is taken in the end and returns, whichever
\* channel it waits on, and the event the consumer has taken is processed to
\* its end (the consumer comes back to select).
C31_EventuallyProcessed ==
    /\ \A p \in Producers : (pcP[p] # "idle") ~> (pcP[p] = "idle")
    /\ (~ev.done) ~> ev.done
    /\ (cpc # "select") ~> (cpc = "select")

\* the number of the call a submitted value belongs to (its reason)
CallOf(m) == IF "reasons" \in DOMAIN m THEN m.reasons[1] ELSE m.reason

\* the calls of producer p whose events are not processed to the end: held in
\* a channel, held by p blocked in its send, or taken by the consumer with a
\* backend or logger call still to make
Unfinished(p) ==
    { CallOf(banCh[i].m) : i \in { j \in 1..Len(banCh) : banCh[j].from = p } }
    \cup { CallOf(countCh[i].m) : i \in { j \in 1..Len(countCh) : countCh[j].from = p } }
    \cup (IF pcP[p] # "idle" THEN {CallOf(msg[p])} ELSE {})
    \cup (IF ev.from = p /\ ~ev.done THEN {ev.reasons[1]} ELSE {})

\* a call of p returns in this step without having blocked
ReturnsAtOnce(p) ==
    /\ nCalls' # nCalls
    /\ pcP[p] = "idle" /\ pcP'[p] = "idle"
    /\ \/ Len(banCh') > Len(banCh) /\ banCh'[Len(banCh')].from = p
       \/ Len(countCh') > Len(countCh) /\ countCh'[Len(countCh')].from = p

\* C32: when a call of a producer returns, the only event of that producer
\* that may still be unfinished is the event of that very call: every event
\* it submitted before has had its backend and logger calls.  The consumer
\* takes the events of one producer in the order of its calls.
C32_CallerOrder ==
    [][ \A p \in Producers :
          /\ Returns(p) => Unfinished(p)' \subseteq {CallOf(msg[p])}
          /\ ReturnsAtOnce(p) => Unfinished(p)' \subseteq {nCalls'}
          /\ (Takes /\ ev'.from = p /\ ev.from = p) =>
                 ev.done /\ ev.reasons[1] < ev'.reasons[1]
      ]_vars

\* a producer's second call has returned while the consumer is in a backend
\* or logger call for its event; every other producer has been blocked in
\* its first call since before
C32_Witness ==
    \E p \in Producers :
        /\ pcP[p] = "idle"
        /\ ev.from = p /\ ~ev.done /\ cpc \in {"doBanIP", "banLog", "log"}
        /\ ev.reasons[1] = NumProducers + 1
        /\ \A q \in Producers \ {p} : pcP[q] # "idle"
        /\ { CallOf(msg[q]) : q \in Producers \ {p} } = 1..(NumProducers - 1)

====
